---------------------------- MODULE Spec2Model ----------------------------
(***************************************************************************)
(* Attempt-tracked password verification of sunshineplan/password.         *)
(*                                                                         *)
(* The source tree holds three revisions of the verifier:                  *)
(*   "password.go"   package-level Compare/Change/CompareRSA/ChangeRSA     *)
(*                   over the global cache c, maxAttempts and duration;    *)
(*   "passworder.go" the Passworder type, whose compare punishes an        *)
(*                   undecryptable password with record(id, p.max);        *)
(*   "part_001"      the earlier Passworder, whose compare counts every    *)
(*                   bcrypt error of hashed mode as an attempt.            *)
(* A behaviour runs one of them (impl); the ledger state is the same.      *)
(***************************************************************************)
EXTENDS Integers, Sequences, FiniteSets, TLC

\* ------------------------------------------------------------------ bounds
MaxThreshold == 2
NumThreads == 2

Thresholds == 1..MaxThreshold
\* The attempt window, in units of time.
Durations == {1, 2}
Threads == 1..NumThreads

\* Identity keys: two composite keys that differ in one field only.
Ids == {<<"test1", "">>, <<"test1", "test2">>}

Impls == {"password.go", "passworder.go", "part_001"}

\* ------------------------------------------------------- string material
Passwords == {"", "a", "b"}

\* bcrypt salts are 22 characters of the encoded hash.
Salts == {"saltsaltsaltsaltsalt.1", "saltsaltsaltsaltsalt.2"}

\* An encoded bcrypt hash: prefix with cost, 22 characters of salt, the digest
\* of (salt, password); 60 characters and more.
HashOf(salt, password) ==
    "$2a$04$" \o salt \o "digestdigestdigestdigestdigest:" \o password

Hashes == {HashOf(s, p) : s \in Salts, p \in Passwords}

\* The stored hash of password "a".
StoredHash == HashOf("saltsaltsaltsaltsalt.1", "a")

\* A stored reference of 60 characters that is no bcrypt hash.
LongReference == "plaintext-reference-that-is-longer-than-a-bcrypt-hash-string"

References == {"", "a", StoredHash, LongReference}

\* The base64 text of the PKCS#1 v1.5 ciphertext of a password.
Envelope(password) == "rsa:" \o password

\* Valid base64 that is no ciphertext of the key.
BadEncryptedPassword == "BadEncryptedPassword"

PlainSupplied == Passwords \cup {StoredHash}
Envelopes == {Envelope(p) : p \in PlainSupplied}
\* What a caller sends: a password as it is, the envelope of one, or garbage.
Supplied == {"a", "b", Envelope("a"), Envelope("b"), BadEncryptedPassword}

\* ------------------------------------------------------------- primitives
\* bcrypt.CompareHashAndPassword: "nil", or the error it returns.
CompareHashAndPassword(hashedPassword, password) ==
    IF Len(hashedPassword) < 59 THEN "ErrHashTooShort"
    ELSE IF hashedPassword \notin Hashes THEN "InvalidHashPrefixError"
    ELSE IF \E s \in Salts : hashedPassword = HashOf(s, password) THEN "nil"
    ELSE "ErrMismatchedHashAndPassword"

\* A decryption that hands back the envelope it was given.
DecryptPKCS1v15_Envelope(s) ==
    IF s \notin Envelopes \cup {BadEncryptedPassword, ""}
    THEN [s |-> "", err |-> "CorruptInputError"]
    ELSE IF \E p \in PlainSupplied : s = Envelope(p)
    THEN [s |-> s, err |-> "nil"]
    ELSE [s |-> "", err |-> "ErrDecryption"]

\* base64.StdEncoding.DecodeString then rsa.DecryptPKCS1v15.
DecryptPKCS1v15(s) ==
    IF s \notin Envelopes \cup {BadEncryptedPassword, ""}
    THEN [s |-> "", err |-> "CorruptInputError"]
    ELSE IF \E p \in PlainSupplied : s = Envelope(p)
    THEN [s |-> CHOOSE p \in PlainSupplied : s = Envelope(p), err |-> "nil"]
    ELSE [s |-> "", err |-> "ErrDecryption"]

\* The expiring cache: a record holds its value and the time it has left.
Get(c, k) ==
    IF k \in DOMAIN c THEN [v |-> c[k].v, ok |-> TRUE] ELSE [v |-> 0, ok |-> FALSE]

\* A Set that takes keys with the same first field for the same key.
Set_ByFirstField(c, k, v, d) ==
    [x \in DOMAIN c \cup {y \in Ids : y[1] = k[1]} |->
        IF x[1] = k[1] THEN [v |-> v, ttl |-> d] ELSE c[x]]

Set(c, k, v, d) ==
    [x \in DOMAIN c \cup {k} |-> IF x = k THEN [v |-> v, ttl |-> d] ELSE c[x]]

Delete(c, k) == [x \in DOMAIN c \ {k} |-> c[x]]

\* One unit of time passes: records whose time is up are dropped.
Elapse(c) ==
    [x \in {k \in DOMAIN c : c[k].ttl > 1} |-> [v |-> c[x].v, ttl |-> c[x].ttl - 1]]

Empty == [x \in {} |-> [v |-> 0, ttl |-> 0]]

\* The record of k as stored; ttl 0 stands for no record.
Entry(c, k) == IF k \in DOMAIN c THEN c[k] ELSE [v |-> 0, ttl |-> 0]

\* ------------------------------------------------------------------ state
VARIABLES
    impl,     \* the revision this behaviour runs
    cache,    \* password.go: c; Passworder: p.cache
    max,      \* password.go: maxAttempts; Passworder: p.max
    dur,      \* password.go: duration; Passworder: p.dur
    key,      \* Passworder: p.key # nil
    ret,      \* what the last call returned, and the record it found (was)
    streak,   \* per identity: credential mismatches in a row since a clean record
    th,       \* the calls in flight of the concurrent specification
    age       \* per identity: the time since the first failure its record counts

vars == <<impl, cache, max, dur, key, ret, streak, th, age>>

NoCall == [op |-> "", id |-> <<"", "">>, ok |-> FALSE, err |-> "nil", n |-> 0, cred |-> "",
           was |-> [v |-> 0, ttl |-> 0]]

Idle == [pc |-> "idle", id |-> <<"", "">>, hashedPassword |-> "", password |-> "",
         hash |-> FALSE, v |-> 0, ok |-> FALSE, err |-> "nil", n |-> 0]

\* The longest window, and an age beyond every window.
Longest == CHOOSE d \in Durations : \A e \in Durations : e <= d
Old == Longest + 1

\* The ages once the ledger has become c: a record that is new or gone is of
\* age 0, a record that was there keeps its age.
Aged(c) ==
    [id \in Ids |-> IF id \in DOMAIN c /\ id \in DOMAIN cache THEN age[id] ELSE 0]

\* ------------------------------------------------------------ password.go
\* recordIncorrectPassword that leaves a record it finds the time it had left.
recordIncorrectPassword_KeepWindow(c, info) ==
    LET g == Get(c, info)
        n == IF ~g.ok THEN 1 ELSE g.v + 1
    IN [c |-> Set(c, info, n, IF g.ok THEN c[info].ttl ELSE dur),
        err |-> "ErrIncorrectPassword", n |-> n]

recordIncorrectPassword(c, info) ==
    LET g == Get(c, info)
        n == IF ~g.ok THEN 1 ELSE g.v + 1
    IN [c |-> Set(c, info, n, dur), err |-> "ErrIncorrectPassword", n |-> n]

\* IsMaxAttempts with the comparison off by one.
IsMaxAttempts_OffByOne(c, info) ==
    LET g == Get(c, info)
    IN IF ~g.ok \/ g.v <= max THEN FALSE ELSE TRUE

IsMaxAttempts(c, info) ==
    LET g == Get(c, info)
    IN IF ~g.ok \/ g.v < max THEN FALSE ELSE TRUE

Clear(c, info) == Delete(c, info)

\* GenerateFromPassword that hashes the empty password whatever it is given.
GenerateFromPassword_Blank(salt, password) == HashOf(salt, "")

GenerateFromPassword(salt, password) == HashOf(salt, password)

\* (*maxPasswordAttemptsError).Error of password.go reads maxAttempts when the
\* text is made; the Passworder's error carries p.max as its value.
Failure(c, err, n) == [c |-> c, password |-> "", ok |-> FALSE, err |-> err, n |-> n]

Success(c, password) == [c |-> c, password |-> password, ok |-> TRUE, err |-> "nil", n |-> 0]

\* compare whose string-equality shortcut is taken in hashed mode as well.
compareDecrypted_EqualityAlways(c, info, hashedPassword, password, hashed) ==
    IF hashedPassword = password
    THEN Success(Clear(c, info), password)
    ELSE LET err == CompareHashAndPassword(hashedPassword, password)
         IN IF err # "nil"
            THEN IF (~hashed /\ err = "ErrHashTooShort")
                    \/ err = "ErrMismatchedHashAndPassword"
                 THEN LET r == recordIncorrectPassword(c, info)
                      IN Failure(r.c, r.err, r.n)
                 ELSE Failure(c, err, 0)
            ELSE Success(Clear(c, info), password)

compareDecrypted(c, info, hashedPassword, password, hashed) ==
    IF hashedPassword = password /\ ~hashed
    THEN Success(Clear(c, info), password)
    ELSE LET err == CompareHashAndPassword(hashedPassword, password)
         IN IF err # "nil"
            THEN IF (~hashed /\ err = "ErrHashTooShort")
                    \/ err = "ErrMismatchedHashAndPassword"
                 THEN LET r == recordIncorrectPassword(c, info)
                      IN Failure(r.c, r.err, r.n)
                 ELSE Failure(c, err, 0)
            ELSE Success(Clear(c, info), password)

\* compare that decrypts before it looks at the lockout.
compare_DecryptFirst(c, info, hashedPassword, password, hashed, priv) ==
    LET d == IF priv THEN DecryptPKCS1v15(password) ELSE [s |-> password, err |-> "nil"]
    IN IF d.err # "nil"
       THEN Failure(c, d.err, 0)
       ELSE IF IsMaxAttempts(c, info)
            THEN Failure(c, "ErrMaxPasswordAttempts", 0)
            ELSE compareDecrypted(c, info, hashedPassword, d.s, hashed)

compare(c, info, hashedPassword, password, hashed, priv) ==
    IF IsMaxAttempts(c, info)
    THEN Failure(c, "ErrMaxPasswordAttempts", 0)
    ELSE IF priv
         THEN LET d == DecryptPKCS1v15(password)
              IN IF d.err # "nil"
                 THEN Failure(c, d.err, 0)
                 ELSE compareDecrypted(c, info, hashedPassword, d.s, hashed)
         ELSE compareDecrypted(c, info, hashedPassword, password, hashed)


\* The rules of change on the new password, once the old one is accepted.
\* The rules with the blank check ahead of the same-password check.
validate_BlankFirst(password, new1, new2, salt) ==
    IF new1 # new2 THEN [cred |-> "", err |-> "ErrConfirmPasswordNotMatch"]
    ELSE IF new1 = "" THEN [cred |-> "", err |-> "ErrBlankPassword"]
    ELSE IF new1 = password THEN [cred |-> "", err |-> "ErrSamePassword"]
    ELSE [cred |-> GenerateFromPassword(salt, new1), err |-> "nil"]

validate(password, new1, new2, salt) ==
    IF new1 # new2 THEN [cred |-> "", err |-> "ErrConfirmPasswordNotMatch"]
    ELSE IF new1 = password THEN [cred |-> "", err |-> "ErrSamePassword"]
    ELSE IF new1 = "" THEN [cred |-> "", err |-> "ErrBlankPassword"]
    ELSE [cred |-> GenerateFromPassword(salt, new1), err |-> "nil"]

\* change that looks at the confirmation before it checks the old password.
change_RulesFirst(c, info, hashedPassword, password, new1, new2, hashed, priv, salt) ==
    IF ~priv /\ new1 # new2
    THEN [c |-> c, cred |-> "", err |-> "ErrConfirmPasswordNotMatch", n |-> 0]
    ELSE LET r == compare(c, info, hashedPassword, password, hashed, priv)
         IN IF r.ok
            THEN LET w == validate(r.password,
                                   IF priv THEN DecryptPKCS1v15(new1).s ELSE new1,
                                   IF priv THEN DecryptPKCS1v15(new2).s ELSE new2, salt)
                 IN [c |-> r.c, cred |-> w.cred, err |-> w.err, n |-> 0]
            ELSE [c |-> r.c, cred |-> "", err |-> r.err, n |-> r.n]

\* change that counts a new password the rules reject as a failed attempt.
change_CountsRules(c, info, hashedPassword, password, new1, new2, hashed, priv, salt) ==
    LET r == compare(c, info, hashedPassword, password, hashed, priv)
    IN IF r.ok
       THEN LET w == validate(r.password,
                              IF priv THEN DecryptPKCS1v15(new1).s ELSE new1,
                              IF priv THEN DecryptPKCS1v15(new2).s ELSE new2, salt)
            IN IF w.err = "nil"
               THEN [c |-> r.c, cred |-> w.cred, err |-> w.err, n |-> 0]
               ELSE [c |-> recordIncorrectPassword(r.c, info).c, cred |-> "",
                     err |-> w.err, n |-> 0]
       ELSE [c |-> r.c, cred |-> "", err |-> r.err, n |-> r.n]

change(c, info, hashedPassword, password, new1, new2, hashed, priv, salt) ==
    LET r == compare(c, info, hashedPassword, password, hashed, priv)
    IN IF r.ok
       THEN IF priv
            THEN LET d1 == DecryptPKCS1v15(new1)
                     d2 == DecryptPKCS1v15(new2)
                 IN IF d1.err # "nil" THEN [c |-> r.c, cred |-> "", err |-> d1.err, n |-> 0]
                    ELSE IF d2.err # "nil" THEN [c |-> r.c, cred |-> "", err |-> d2.err, n |-> 0]
                    ELSE LET w == validate(r.password, d1.s, d2.s, salt)
                         IN [c |-> r.c, cred |-> w.cred, err |-> w.err, n |-> 0]
            ELSE LET w == validate(r.password, new1, new2, salt)
                 IN [c |-> r.c, cred |-> w.cred, err |-> w.err, n |-> 0]
       ELSE [c |-> r.c, cred |-> "", err |-> r.err, n |-> r.n]

\* CompareRSA and ChangeRSA refuse a nil key before anything else.
\* CompareRSA that looks for the key only after the lockout check.
compareRSA_KeyCheckLate(c, info, hashedPassword, password, hashed, priv) ==
    IF IsMaxAttempts(c, info) THEN Failure(c, "ErrMaxPasswordAttempts", 0)
    ELSE IF ~priv THEN Failure(c, "ErrNoPrivateKey", 0)
    ELSE compare(c, info, hashedPassword, password, hashed, priv)

compareRSA(c, info, hashedPassword, password, hashed, priv) ==
    IF ~priv THEN Failure(c, "ErrNoPrivateKey", 0)
    ELSE compare(c, info, hashedPassword, password, hashed, priv)

changeRSA(c, info, hashedPassword, password, new1, new2, hashed, priv, salt) ==
    IF ~priv THEN [c |-> c, cred |-> "", err |-> "ErrNoPrivateKey", n |-> 0]
    ELSE change(c, info, hashedPassword, password, new1, new2, hashed, priv, salt)

\* ---------------------------------------------------------- passworder.go
\* record that stores n instead of adding it to the stored count.
record_Overwrite(c, id, n) == [c |-> Set(c, id, n, dur), n |-> n]

record(c, id, n) ==
    LET g == Get(c, id)
        m == IF g.ok THEN n + g.v ELSE n
    IN [c |-> Set(c, id, m, dur), n |-> m]

\* recordIncorrect that counts a mismatch twice.
recordIncorrect_Twice(c, id) ==
    LET r == record(c, id, 2)
    IN [c |-> r.c, err |-> "ErrIncorrectPassword", n |-> r.n]

recordIncorrect(c, id) ==
    LET r == record(c, id, 1)
    IN [c |-> r.c, err |-> "ErrIncorrectPassword", n |-> r.n]

\* IsMaxAttempts that holds at the threshold only, not above it.
Passworder_IsMaxAttempts_Exact(c, id) ==
    LET g == Get(c, id)
    IN g.ok /\ g.v = max

Passworder_IsMaxAttempts(c, id) ==
    LET g == Get(c, id)
    IN g.ok /\ g.v >= max

\* Reset that deletes nothing.
Reset_Nothing(c, id) == c

Reset(c, id) == Delete(c, id)

Passworder_DecryptPKCS1v15(s) == DecryptPKCS1v15(s)

Passworder_compareDecrypted(c, id, secret, password, hash) ==
    IF hash
    THEN LET err == CompareHashAndPassword(secret, password)
         IN IF err # "nil"
            THEN IF err = "ErrMismatchedHashAndPassword"
                 THEN LET r == recordIncorrect(c, id) IN Failure(r.c, r.err, r.n)
                 ELSE Failure(c, err, 0)
            ELSE Success(Reset(c, id), password)
    ELSE IF secret # password
         THEN LET r == recordIncorrect(c, id) IN Failure(r.c, r.err, r.n)
         ELSE Success(Reset(c, id), password)

\* compare that returns the decryption error without recording anything.
Passworder_compare_NoPenalty(c, id, secret, password, hash) ==
    IF Passworder_IsMaxAttempts(c, id)
    THEN Failure(c, "ErrMaxPasswordAttempts", max)
    ELSE IF key
         THEN LET d == Passworder_DecryptPKCS1v15(password)
              IN IF d.err # "nil"
                 THEN Failure(c, d.err, 0)
                 ELSE Passworder_compareDecrypted(c, id, secret, d.s, hash)
         ELSE Passworder_compareDecrypted(c, id, secret, password, hash)

Passworder_compare(c, id, secret, password, hash) ==
    IF Passworder_IsMaxAttempts(c, id)
    THEN Failure(c, "ErrMaxPasswordAttempts", max)
    ELSE IF key
         THEN LET d == Passworder_DecryptPKCS1v15(password)
              IN IF d.err # "nil"
                 THEN Failure(record(c, id, max).c, d.err, 0)
                 ELSE Passworder_compareDecrypted(c, id, secret, d.s, hash)
         ELSE Passworder_compareDecrypted(c, id, secret, password, hash)

\* --------------------------------------------------------------- part_001
Legacy_recordIncorrect(c, id) ==
    LET g == Get(c, id)
        n == IF ~g.ok THEN 1 ELSE g.v + 1
    IN [c |-> Set(c, id, n, dur), err |-> "ErrIncorrectPassword", n |-> n]

\* IsMaxAttempts that holds as soon as there is a record.
Legacy_IsMaxAttempts_Present(c, id) ==
    LET g == Get(c, id)
    IN g.ok

Legacy_IsMaxAttempts(c, id) ==
    LET g == Get(c, id)
    IN g.ok /\ g.v >= max

Legacy_compareDecrypted(c, id, secret, password, hash) ==
    IF hash
    THEN LET err == CompareHashAndPassword(secret, password)
         IN IF err # "nil"
            THEN LET e == Legacy_recordIncorrect(c, id)
                 IN IF err = "ErrMismatchedHashAndPassword"
                    THEN Failure(e.c, e.err, e.n)
                    ELSE Failure(e.c, err, 0)
            ELSE Success(Reset(c, id), password)
    ELSE IF secret # password
         THEN LET r == Legacy_recordIncorrect(c, id) IN Failure(r.c, r.err, r.n)
         ELSE Success(Reset(c, id), password)

\* compare that does not look at the lockout before it compares.
Legacy_compare_NoLockout(c, id, secret, password, hash) ==
    IF key
    THEN LET d == DecryptPKCS1v15(password)
         IN IF d.err # "nil"
            THEN Failure(c, d.err, 0)
            ELSE Legacy_compareDecrypted(c, id, secret, d.s, hash)
    ELSE Legacy_compareDecrypted(c, id, secret, password, hash)

Legacy_compare(c, id, secret, password, hash) ==
    IF Legacy_IsMaxAttempts(c, id)
    THEN Failure(c, "ErrMaxPasswordAttempts", max)
    ELSE IF key
         THEN LET d == DecryptPKCS1v15(password)
              IN IF d.err # "nil"
                 THEN Failure(c, d.err, 0)
                 ELSE Legacy_compareDecrypted(c, id, secret, d.s, hash)
         ELSE Legacy_compareDecrypted(c, id, secret, password, hash)

\* ----------------------------------------------- the calls, one at a time
IsPackage == impl = "password.go"
IsPassworder == impl \in {"passworder.go", "part_001"}

\* compare of the Passworder revision this behaviour runs.
p_compare(c, id, secret, password, hash) ==
    IF impl = "passworder.go" THEN Passworder_compare(c, id, secret, password, hash)
    ELSE Legacy_compare(c, id, secret, password, hash)

locked(c, id) ==
    IF IsPackage THEN IsMaxAttempts(c, id) ELSE Passworder_IsMaxAttempts(c, id)

\* The run of consecutive credential mismatches of id after a call on it.
StreakAfter(id, c, err) ==
    IF err = "ErrIncorrectPassword"
    THEN IF id \notin DOMAIN c THEN 1
         ELSE IF streak[id] > 0 THEN streak[id] + 1 ELSE 0
    ELSE IF err \in {"ErrMaxPasswordAttempts", "ErrNoPrivateKey"} THEN streak[id]
    ELSE 0

Returned(op, id, r) ==
    /\ cache' = r.c
    /\ ret' = [op |-> op, id |-> id, ok |-> r.ok, err |-> r.err, n |-> r.n, cred |-> "",
               was |-> Entry(cache, id)]
    /\ streak' = [streak EXCEPT ![id] = StreakAfter(id, cache, r.err)]
    /\ age' = Aged(cache')
    /\ UNCHANGED <<impl, max, dur, key, th>>

ReturnedCred(op, id, r) ==
    /\ cache' = r.c
    /\ ret' = [op |-> op, id |-> id, ok |-> r.err = "nil", err |-> r.err, n |-> r.n,
               cred |-> r.cred, was |-> Entry(cache, id)]
    /\ streak' = [streak EXCEPT ![id] = StreakAfter(id, cache, r.err)]
    /\ age' = Aged(cache')
    /\ UNCHANGED <<impl, max, dur, key, th>>

Compare ==
    /\ IsPackage
    /\ \E info \in Ids, hashedPassword \in References, password \in PlainSupplied,
          hashed \in BOOLEAN :
          Returned("Compare", info, compare(cache, info, hashedPassword, password, hashed, FALSE))

CompareRSA ==
    /\ IsPackage
    /\ \E info \in Ids, hashedPassword \in References,
          password \in {Envelope("a"), Envelope("b"), BadEncryptedPassword, "b"},
          hashed \in BOOLEAN, priv \in BOOLEAN :
          Returned("CompareRSA", info,
                   compareRSA(cache, info, hashedPassword, password, hashed, priv))

ChangeReferences == {"", "a", StoredHash}

\* The salt GenerateFromPassword draws matters only when a hash is made.
SaltsFor(err) == IF err = "nil" THEN Salts ELSE {"saltsaltsaltsaltsalt.1"}

Change ==
    /\ IsPackage
    /\ \E info \in Ids, hashedPassword \in ChangeReferences, password \in {"", "a"},
          new1 \in Passwords, hashed \in BOOLEAN :
          \E new2 \in {new1, "b"} :
          \E salt \in SaltsFor(change(cache, info, hashedPassword, password, new1, new2,
                                      hashed, FALSE, "saltsaltsaltsaltsalt.1").err) :
             ReturnedCred("Change", info,
                          change(cache, info, hashedPassword, password, new1, new2, hashed,
                                 FALSE, salt))

NewSupplied == {Envelope("a"), Envelope("b"), BadEncryptedPassword}

ChangeRSA ==
    /\ IsPackage
    /\ \E info \in Ids, hashedPassword \in {StoredHash},
          password \in {Envelope("a"), Envelope("b"), BadEncryptedPassword},
          new1 \in NewSupplied, new2 \in {Envelope("b"), BadEncryptedPassword},
          hashed \in BOOLEAN, priv \in BOOLEAN :
          \E salt \in SaltsFor(changeRSA(cache, info, hashedPassword, password, new1, new2,
                                         hashed, priv, "saltsaltsaltsaltsalt.1").err) :
             ReturnedCred("ChangeRSA", info,
                          changeRSA(cache, info, hashedPassword, password, new1, new2,
                                    hashed, priv, salt))

P_Compare ==
    /\ IsPassworder
    /\ \E id \in Ids, secret \in References, password \in Supplied :
          Returned("Compare", id, p_compare(cache, id, secret, password, FALSE))

P_CompareHashAndPassword ==
    /\ IsPassworder
    /\ \E id \in Ids, hash \in References, password \in Supplied :
          Returned("CompareHashAndPassword", id, p_compare(cache, id, hash, password, TRUE))

\* IsMaxAttempts, of the package and of the Passworder.
QueryIsMaxAttempts ==
    \E id \in Ids :
        /\ ret' = [op |-> "IsMaxAttempts", id |-> id, ok |-> locked(cache, id),
                   err |-> "nil", n |-> 0, cred |-> "", was |-> Entry(cache, id)]
        /\ UNCHANGED <<impl, cache, max, dur, key, streak, th, age>>

\* Clear of the package, Reset of the Passworder.
ResetId ==
    \E id \in Ids :
        /\ cache' = IF IsPackage THEN Clear(cache, id) ELSE Reset(cache, id)
        /\ ret' = [NoCall EXCEPT !.op = "Reset", !.id = id, !.was = Entry(cache, id)]
        /\ streak' = [streak EXCEPT ![id] = 0]
        /\ age' = Aged(cache')
        /\ UNCHANGED <<impl, max, dur, key, th>>

\* (ret.n keeps the threshold that was configured before.)
SetMaxAttempts ==
    \E n \in Thresholds :
        /\ max' = n
        /\ ret' = [NoCall EXCEPT !.op = "SetMaxAttempts", !.n = max]
        /\ streak' = IF n = max THEN streak ELSE [id \in Ids |-> 0]
        /\ UNCHANGED <<impl, cache, dur, key, th, age>>

SetDuration ==
    \E d \in Durations :
        /\ dur' = d
        /\ ret' = [NoCall EXCEPT !.op = "SetDuration"]
        /\ UNCHANGED <<impl, cache, max, key, streak, th, age>>

SetKey ==
    /\ IsPassworder
    /\ \E k \in BOOLEAN :
        /\ key' = k
        /\ ret' = [NoCall EXCEPT !.op = "SetKey"]
        /\ UNCHANGED <<impl, cache, max, dur, streak, th, age>>

\* The window of a record runs out between two calls: the cache forgets it.
\* (Records written at different times, or with different windows, run out at
\* different times, so any one of them may go first.)
Expire ==
    \E id \in DOMAIN cache :
        /\ cache' = Delete(cache, id)
        /\ ret' = [NoCall EXCEPT !.op = "Expire", !.id = id, !.was = Entry(cache, id)]
        /\ streak' = [streak EXCEPT ![id] = 0]
        /\ age' = Aged(cache')
        /\ UNCHANGED <<impl, max, dur, key, th>>

\* One unit of time passes between two calls; the cache forgets the records
\* whose time is up.
Tick ==
    /\ cache' = Elapse(cache)
    /\ ret' = [NoCall EXCEPT !.op = "Tick"]
    /\ streak' = [id \in Ids |-> IF id \in DOMAIN cache' THEN streak[id] ELSE 0]
    /\ age' = [id \in Ids |-> IF id \notin DOMAIN cache' THEN 0
                              ELSE IF age[id] < Old THEN age[id] + 1 ELSE Old]
    /\ UNCHANGED <<impl, max, dur, key, th>>

\* After New(d, n, key), or the package after SetMaxAttempts(n), SetDuration(d).
Init ==
    /\ impl \in Impls
    /\ cache = Empty
    /\ max \in Thresholds
    /\ dur \in Durations
    /\ key \in IF impl = "password.go" THEN {FALSE} ELSE BOOLEAN
    /\ ret = NoCall
    /\ streak = [id \in Ids |-> 0]
    /\ th = [t \in Threads |-> Idle]
    /\ age = [id \in Ids |-> 0]

Next ==
    \/ Compare
    \/ CompareRSA
    \/ Change
    \/ ChangeRSA
    \/ P_Compare
    \/ P_CompareHashAndPassword
    \/ QueryIsMaxAttempts
    \/ ResetId
    \/ SetMaxAttempts
    \/ SetKey
    \/ Expire

\* The calls one at a time, with the window as the calls see it: a record is
\* there or has run out.
Spec == Init /\ [][Next]_vars

\* The ledger with the clock: time passes in units and the window can be set.
\* Compare stands for the calls on the ledger: every other call records,
\* resets and checks the lockout through the same compare, and the key is the
\* one the Passworder was made with.
TimedNext ==
    \/ Compare
    \/ P_Compare
    \/ ResetId
    \/ SetMaxAttempts
    \/ SetDuration
    \/ Tick

TimedSpec == Init /\ [][TimedNext]_vars

\* The calls one at a time on a verifier whose configuration stays as it was
\* made: the threshold and the key are not set again.
FixedNext ==
    \/ Compare
    \/ CompareRSA
    \/ Change
    \/ ChangeRSA
    \/ P_Compare
    \/ P_CompareHashAndPassword
    \/ QueryIsMaxAttempts
    \/ ResetId
    \/ Expire

FixedSpec == Init /\ [][FixedNext]_vars

TypeOK ==
    /\ impl \in Impls
    /\ DOMAIN cache \subseteq Ids
    /\ \A id \in DOMAIN cache : cache[id].v \in Int /\ cache[id].ttl \in Durations
    /\ max \in Thresholds
    /\ dur \in Durations
    /\ key \in BOOLEAN


\* ------------------------------------------- calls that run concurrently
\* Each thread makes one compare call in plaintext mode against reference "a",
\* with no key; the call touches the cache one operation at a time, and
\* nothing in compare holds a lock from the lockout check to the write.
Call(t) ==
    /\ th[t].pc = "idle"
    /\ \E id \in Ids, password \in {"a", "b"} :
          th' = [th EXCEPT ![t] = [Idle EXCEPT !.pc = "IsMaxAttempts", !.id = id,
                                               !.hashedPassword = "a",
                                               !.password = password]]
    /\ UNCHANGED <<impl, cache, max, dur, key, ret, streak, age>>

\* compare: the lockout check, then the comparison of the two strings.
Step_IsMaxAttempts(t) ==
    /\ th[t].pc = "IsMaxAttempts"
    /\ th' = [th EXCEPT ![t] =
                IF locked(cache, th[t].id)
                THEN [@ EXCEPT !.pc = "done", !.err = "ErrMaxPasswordAttempts",
                               !.n = IF IsPackage THEN 0 ELSE max]
                ELSE IF th[t].hashedPassword # th[t].password
                THEN [@ EXCEPT !.pc = "record_Get"]
                ELSE [@ EXCEPT !.pc = "Reset"]]
    /\ UNCHANGED <<impl, cache, max, dur, key, ret, streak, age>>

\* record (recordIncorrectPassword): v, ok := cache.Get(id)
Step_record_Get(t) ==
    /\ th[t].pc = "record_Get"
    /\ th' = [th EXCEPT ![t] = [@ EXCEPT !.pc = "record_Set",
                                         !.v = Get(cache, th[t].id).v,
                                         !.ok = Get(cache, th[t].id).ok]]
    /\ UNCHANGED <<impl, cache, max, dur, key, ret, streak, age>>

\* record (recordIncorrectPassword): cache.Set(id, n, dur, nil); return n
Step_record_Set(t) ==
    /\ th[t].pc = "record_Set"
    /\ LET n == IF th[t].ok THEN th[t].v + 1 ELSE 1
       IN /\ cache' = Set(cache, th[t].id, n, dur)
          /\ th' = [th EXCEPT ![t] = [@ EXCEPT !.pc = "done", !.ok = FALSE,
                                               !.err = "ErrIncorrectPassword", !.n = n]]
    /\ UNCHANGED <<impl, max, dur, key, ret, streak, age>>

\* Reset (Clear): cache.Delete(id); return nil
Step_Reset(t) ==
    /\ th[t].pc = "Reset"
    /\ cache' = Delete(cache, th[t].id)
    /\ th' = [th EXCEPT ![t] = [@ EXCEPT !.pc = "done", !.ok = TRUE, !.err = "nil"]]
    /\ UNCHANGED <<impl, max, dur, key, ret, streak, age>>

\* The calls start on a ledger that is empty or holds one earlier failure.
ConcInit ==
    /\ impl \in Impls
    /\ max \in Thresholds
    /\ dur \in Durations
    /\ cache \in {Empty, [x \in {<<"test1", "">>} |-> [v |-> 1, ttl |-> dur]]}
    /\ key = FALSE
    /\ ret = NoCall
    /\ streak = [id \in Ids |-> 0]
    /\ th = [t \in Threads |-> Idle]
    /\ age = [id \in Ids |-> 0]

ConcNext ==
    \E t \in Threads :
        \/ Call(t)
        \/ Step_IsMaxAttempts(t)
        \/ Step_record_Get(t)
        \/ Step_record_Set(t)
        \/ Step_Reset(t)

ConcSpec == ConcInit /\ [][ConcNext]_vars

\* ------------------------------------------------------------- the claims
TransportErrors == {"CorruptInputError", "ErrDecryption"}
StorageErrors == {"ErrHashTooShort", "InvalidHashPrefixError"}
CompareOps == {"Compare", "CompareRSA", "CompareHashAndPassword"}
ChangeOps == {"Change", "ChangeRSA"}

AllSupplied == PlainSupplied \cup Supplied
Undecryptable == {s \in AllSupplied : DecryptPKCS1v15(s).err # "nil"}

\* compare of the revision this behaviour runs; a Passworder takes its key
\* from its state.
AnyCompare(c, id, reference, password, hashed, priv) ==
    IF IsPackage THEN compare(c, id, reference, password, hashed, priv)
    ELSE p_compare(c, id, reference, password, hashed)

\* The threshold a Locked outcome shows: the text of password.go's error reads
\* maxAttempts, the Passworder's error is the threshold it was made with.
ErrorValue(r) == IF IsPackage THEN max ELSE r.n

\* A password that is wrong for reference "a", as this verifier receives it.
WrongPassword == IF IsPassworder /\ key THEN Envelope("b") ELSE "b"

RECURSIVE AfterFailures(_, _, _)
AfterFailures(c, id, k) ==
    IF k = 0 THEN c
    ELSE AfterFailures(AnyCompare(c, id, "a", WrongPassword, FALSE, FALSE).c, id, k - 1)

\* C1: after N = threshold consecutive credential mismatches on an identity the
\* Nth call has reported IncorrectPassword with count N and the identity is
\* locked (and not before); the next compare call, whatever password it
\* supplies, returns Locked carrying the threshold, compares nothing and leaves
\* the record as it is.
C1_LockedAfterThreshold ==
    /\ \A id \in Ids :
          streak[id] > 0 =>
             /\ Entry(cache, id).v = streak[id]
             /\ streak[id] <= max
             /\ locked(cache, id) <=> streak[id] = max
             /\ (ret.id = id /\ ret.err = "ErrIncorrectPassword") => ret.n = streak[id]
             /\ streak[id] = max =>
                   \A reference \in References, password \in AllSupplied,
                      hashed \in BOOLEAN, priv \in BOOLEAN :
                      LET r == AnyCompare(cache, id, reference, password, hashed, priv)
                      IN /\ r.err = "ErrMaxPasswordAttempts"
                         /\ ~r.ok
                         /\ r.c = cache
                         /\ ErrorValue(r) = max
    /\ (ret.op \in CompareOps /\ ret.err = "ErrMaxPasswordAttempts") =>
          ~ret.ok /\ Entry(cache, ret.id) = ret.was

C1_Witness ==
    /\ ret.op \in CompareOps
    /\ ret.err = "ErrMaxPasswordAttempts"
    /\ streak[ret.id] = max
    /\ max = MaxThreshold

\* C2: a successful compare deletes the identity's record whatever count it
\* held: the record is absent, IsMaxAttempts is false, and the identity is
\* locked again only by the threshold-th of the failures that follow.
C2_SuccessResets ==
    (ret.op \in CompareOps /\ ret.ok) =>
       /\ ret.id \notin DOMAIN cache
       /\ ~locked(cache, ret.id)
       /\ \A k \in 0..max :
             locked(AfterFailures(cache, ret.id, k), ret.id) <=> k = max

C2_Witness == ret.op \in CompareOps /\ ret.ok /\ ret.was.v >= 1

\* C3 as claimed: a compare call that returns a decode or decrypt error leaves
\* the identity's record exactly as it was.
C3_TransportErrorNotCounted ==
    (ret.op \in CompareOps /\ ret.err \in TransportErrors) =>
       Entry(cache, ret.id) = ret.was

\* C3 as amended: the package-level compare (password.go) and the earlier
\* Passworder (part_001) leave the record as it was; Passworder.compare of
\* passworder.go adds the threshold to the count with a fresh window, which
\* locks the identity.
C3_TransportErrorByRevision ==
    (ret.op \in CompareOps /\ ret.err \in TransportErrors) =>
       IF impl = "passworder.go"
       THEN /\ Entry(cache, ret.id) = [v |-> ret.was.v + max, ttl |-> dur]
            /\ ret.was.v < max
            /\ locked(cache, ret.id)
       ELSE Entry(cache, ret.id) = ret.was

C3_Witness ==
    /\ impl = "passworder.go"
    /\ ret.err \in TransportErrors
    /\ ret.was.v >= 1
    /\ Entry(cache, ret.id).v > max

\* C4: on a Passworder (passworder.go) with a key, a Compare or
\* CompareHashAndPassword call whose password cannot be decrypted returns an
\* error and leaves the identity locked, whatever its record was before.
C4_DecryptFailureLocks ==
    (impl = "passworder.go" /\ key) =>
       /\ \A id \in Ids, secret \in References, password \in Undecryptable,
             hash \in BOOLEAN :
             LET r == Passworder_compare(cache, id, secret, password, hash)
             IN r.err # "nil" /\ ~r.ok /\ Passworder_IsMaxAttempts(r.c, id)
       /\ (ret.op \in CompareOps /\ ret.err \in TransportErrors) =>
             Passworder_IsMaxAttempts(cache, ret.id)

C4_Witness ==
    /\ impl = "passworder.go"
    /\ key
    /\ ret.op = "CompareHashAndPassword"
    /\ ret.err \in TransportErrors
    /\ ret.was.ttl = 0
    /\ Passworder_IsMaxAttempts(cache, ret.id)

\* C5: in hashed mode an error of the hash primitive other than mismatch is
\* returned as it is and is not counted: the record is as it was.
C5_HashErrorNotCounted ==
    (ret.op \in CompareOps /\ ret.err \in StorageErrors) =>
       Entry(cache, ret.id) = ret.was

\* C6: CompareRSA and ChangeRSA without a key return ErrNoPrivateKey before the
\* lockout check, also for a locked identity, and leave the ledger alone; a
\* following call with the correct plaintext password goes as if the call had
\* not been made.
C6_NoKeyBeforeLedger ==
    /\ IsPackage =>
          \A info \in Ids, hashedPassword \in References, password \in Supplied,
             hashed \in BOOLEAN :
             LET r == compareRSA(cache, info, hashedPassword, password, hashed, FALSE)
                 g == changeRSA(cache, info, hashedPassword, password, Envelope("b"),
                                Envelope("b"), hashed, FALSE, "saltsaltsaltsaltsalt.1")
                 after == compare(r.c, info, "a", "a", FALSE, FALSE)
             IN /\ r.err = "ErrNoPrivateKey" /\ ~r.ok /\ r.c = cache
                /\ g.err = "ErrNoPrivateKey" /\ g.cred = "" /\ g.c = cache
                /\ after = compare(cache, info, "a", "a", FALSE, FALSE)
                /\ ~IsMaxAttempts(cache, info) => after.ok
    /\ ret.err = "ErrNoPrivateKey" =>
          ~ret.ok /\ ret.cred = "" /\ Entry(cache, ret.id) = ret.was

C6_Witness ==
    /\ ret.op = "CompareRSA"
    /\ ret.err = "ErrNoPrivateKey"
    /\ IsMaxAttempts(cache, ret.id)

\* C9: when the old-password check of change fails, change returns that very
\* outcome and no credential, and does to the ledger what compare alone does:
\* a wrong old password adds one to the count, a locked identity's record
\* stays as it is.
C9_OldPasswordAuthoritative ==
    /\ IsPackage =>
          \A info \in Ids, hashedPassword \in ChangeReferences, password \in AllSupplied,
             new1 \in {"", "b"}, new2 \in {"", "b"}, hashed \in BOOLEAN, priv \in BOOLEAN :
             LET r == compare(cache, info, hashedPassword, password, hashed, priv)
                 g == change(cache, info, hashedPassword, password,
                             IF priv THEN Envelope(new1) ELSE new1,
                             IF priv THEN Envelope(new2) ELSE new2,
                             hashed, priv, "saltsaltsaltsaltsalt.1")
             IN ~r.ok => g.err = r.err /\ g.n = r.n /\ g.cred = "" /\ g.c = r.c
    /\ (ret.op \in ChangeOps /\ ret.err = "ErrIncorrectPassword") =>
          /\ ret.cred = ""
          /\ Entry(cache, ret.id) = [v |-> ret.was.v + 1, ttl |-> dur]
          /\ ret.n = ret.was.v + 1
    /\ (ret.op \in ChangeOps /\ ret.err \in {"ErrMaxPasswordAttempts"} \cup StorageErrors) =>
          ret.cred = "" /\ Entry(cache, ret.id) = ret.was

C9_Witness ==
    /\ ret.op = "Change"
    /\ ret.err = "ErrIncorrectPassword"
    /\ ret.was.v >= 1

\* C10: once the old password is accepted, change reports the first failing
\* rule in the order ConfirmMismatch, SamePassword, BlankPassword: new1 # new2
\* is always ConfirmMismatch; new1 = new2 = old is SamePassword, also when all
\* three are empty; BlankPassword is reported exactly when new1 = new2 = ""
\* and the old password is not empty.
C10_RuleOrder ==
    IsPackage =>
       \A info \in Ids, hashedPassword \in ChangeReferences, password \in {"", "a"},
          new1 \in Passwords, new2 \in Passwords, hashed \in BOOLEAN, priv \in BOOLEAN :
          LET old == IF priv THEN Envelope(password) ELSE password
              r == compare(cache, info, hashedPassword, old, hashed, priv)
              g == change(cache, info, hashedPassword, old,
                          IF priv THEN Envelope(new1) ELSE new1,
                          IF priv THEN Envelope(new2) ELSE new2,
                          hashed, priv, "saltsaltsaltsaltsalt.1")
          IN r.ok =>
                /\ r.password = password
                /\ new1 # new2 => g.err = "ErrConfirmPasswordNotMatch"
                /\ (new1 = new2 /\ new1 = password) => g.err = "ErrSamePassword"
                /\ g.err = "ErrBlankPassword" <=> (new1 = new2 /\ new1 = "" /\ password # "")
                /\ g.err # "nil" => g.cred = ""

C10_Witness == ret.op = "Change" /\ ret.err = "ErrBlankPassword"


AllDone == \A t \in Threads : th[t].pc = "done"
FailedOn(id) == {t \in Threads : th[t].id = id /\ th[t].err = "ErrIncorrectPassword"}
SucceededOn(id) == {t \in Threads : th[t].id = id /\ th[t].pc = "done" /\ th[t].ok}

\* C7: no increment is lost: when every one of the concurrent calls was a
\* mismatch on the same identity, the calls have reported different counts and
\* the stored count has grown by the number of calls from what the first of
\* them found.
C7_NoLostIncrement ==
    \A id \in Ids :
       (AllDone /\ FailedOn(id) = Threads) =>
          /\ \A t, u \in Threads : t # u => th[t].n # th[u].n
          /\ LET first == CHOOSE n \in {th[t].n : t \in Threads} :
                              \A t \in Threads : n <= th[t].n
             IN Entry(cache, id).v = (first - 1) + NumThreads

\* C8: the lockout check and the write after it are one step per identity: no
\* call is past its lockout check while the identity is at the threshold, the
\* stored count never exceeds the threshold, and once a call has succeeded the
\* record holds no more failures than the calls that failed.
C8_CheckAndWriteAtomic ==
    /\ \A t \in Threads :
          th[t].pc \in {"record_Get", "record_Set", "Reset"} => ~locked(cache, th[t].id)
    /\ \A id \in DOMAIN cache : cache[id].v <= max
    /\ \A id \in Ids :
          (AllDone /\ SucceededOn(id) # {}) =>
             Entry(cache, id).v <= Cardinality(FailedOn(id))


Keyed(priv) == IF IsPackage THEN priv ELSE key

\* The password p as a caller of a keyed or an unkeyed compare sends it.
Sent(p, priv) == IF Keyed(priv) THEN Envelope(p) ELSE p

\* C12: in plaintext mode, on an identity that is not locked, a supplied
\* password equal to the reference is a Success whatever the string is (also a
\* reference bcrypt would reject): the password is returned, the identity's
\* record is deleted and no other record changes. In hashed mode the same pair
\* is never accepted for being equal: bcrypt decides, and it rejects the pair.
C12_EqualityShortcut ==
    \A id \in Ids, x \in References, priv \in BOOLEAN :
       (~locked(cache, id) /\ (Keyed(priv) => x \in PlainSupplied)) =>
          LET r == AnyCompare(cache, id, x, Sent(x, priv), FALSE, priv)
              h == AnyCompare(cache, id, x, Sent(x, priv), TRUE, priv)
              e == CompareHashAndPassword(x, x)
          IN /\ r.ok /\ r.err = "nil" /\ r.password = x
             /\ r.c = Delete(cache, id)
             /\ e # "nil"
             /\ ~h.ok
             /\ h.err = IF e = "ErrMismatchedHashAndPassword"
                        THEN "ErrIncorrectPassword" ELSE e

\* A Passworder's Compare succeeds only on equal strings.
C12_Witness ==
    /\ IsPassworder
    /\ ret.op = "Compare"
    /\ ret.ok
    /\ ret.was.v >= 1
    /\ ret.id \notin DOMAIN cache

\* compare of the Passworder this behaviour runs as it goes when p.key is nil:
\* the lockout check, then the comparison of the password as it was given.
Unkeyed(c, id, secret, password, hash) ==
    IF Passworder_IsMaxAttempts(c, id)
    THEN Failure(c, "ErrMaxPasswordAttempts", max)
    ELSE IF impl = "passworder.go"
         THEN Passworder_compareDecrypted(c, id, secret, password, hash)
         ELSE Legacy_compareDecrypted(c, id, secret, password, hash)

\* C13: for every password p, reference, mode and ledger state, compare with a
\* key on the envelope of p returns what compare without a key returns on p
\* itself - the same outcome with the same count, the same password - and
\* leaves the same ledger.
C13_EnvelopeEquivalence ==
    \A id \in Ids, reference \in References, p \in PlainSupplied, hashed \in BOOLEAN :
       /\ IsPackage =>
             compare(cache, id, reference, Envelope(p), hashed, TRUE)
                = compare(cache, id, reference, p, hashed, FALSE)
       /\ (IsPassworder /\ ~key) =>
             p_compare(cache, id, reference, p, hashed)
                = Unkeyed(cache, id, reference, p, hashed)
       /\ (IsPassworder /\ key) =>
             p_compare(cache, id, reference, Envelope(p), hashed)
                = Unkeyed(cache, id, reference, p, hashed)

\* A keyed Passworder counts a mismatch only when the envelope decrypts.
C13_Witness ==
    /\ IsPassworder
    /\ key
    /\ ret.op \in CompareOps
    /\ ret.err = "ErrIncorrectPassword"
    /\ ret.n = MaxThreshold

\* C14: in plaintext mode, on an identity that is not locked, a supplied
\* password that differs from the reference is handed to bcrypt with the
\* reference as the hash: a match is a Success that deletes the record; a
\* mismatch and a reference bcrypt cannot read are both a counted failure,
\* ErrIncorrectPassword with the new count, and no bcrypt error is returned.
C14_PlaintextFallsThrough ==
    \A id \in Ids, reference \in References, p \in PlainSupplied, priv \in BOOLEAN :
       (~locked(cache, id) /\ reference # p) =>
          LET r == AnyCompare(cache, id, reference, Sent(p, priv), FALSE, priv)
              n == Entry(cache, id).v + 1
          IN IF CompareHashAndPassword(reference, p) = "nil"
             THEN r.ok /\ r.err = "nil" /\ r.c = Delete(cache, id)
             ELSE /\ ~r.ok
                  /\ r.err = "ErrIncorrectPassword"
                  /\ r.n = n
                  /\ r.c = Set(cache, id, n, dur)

\* C15 as claimed: decryption comes before the lockout check: a keyed compare
\* given a password that cannot be decoded or decrypted returns the transport
\* error also when the identity is locked, and does not write the ledger.
C15_DecryptBeforeLockout ==
    \A id \in Ids, reference \in References, password \in Undecryptable,
       hashed \in BOOLEAN, priv \in BOOLEAN :
       Keyed(priv) =>
          LET r == AnyCompare(cache, id, reference, password, hashed, priv)
          IN r.err \in TransportErrors /\ r.c = cache

\* C15 as amended: the lockout check comes before decryption. On a locked
\* identity a keyed compare returns Locked whatever it is given, decryptable or
\* not, and writes nothing; the transport error is returned only for an
\* identity that is not locked, and then the ledger is left as it is by
\* password.go and part_001 and gets the threshold added by passworder.go.
C15_LockoutBeforeDecrypt ==
    /\ \A id \in Ids, reference \in References, password \in AllSupplied,
          hashed \in BOOLEAN, priv \in BOOLEAN :
          Keyed(priv) =>
             LET r == AnyCompare(cache, id, reference, password, hashed, priv)
             IN IF locked(cache, id)
                THEN r.err = "ErrMaxPasswordAttempts" /\ ~r.ok /\ r.c = cache
                ELSE password \in Undecryptable =>
                        /\ r.err = DecryptPKCS1v15(password).err
                        /\ r.err \in TransportErrors
                        /\ r.c = IF impl = "passworder.go"
                                 THEN Set(cache, id, Entry(cache, id).v + max, dur)
                                 ELSE cache
    /\ (ret.op \in CompareOps \cup ChangeOps /\ ret.err \in TransportErrors) =>
          ret.was.v < max

\* A keyed call on a locked identity has returned Locked, and would for a
\* password that does not decrypt.
C15_Witness ==
    /\ ret.op \in CompareOps
    /\ ret.err = "ErrMaxPasswordAttempts"
    /\ IF IsPackage THEN ret.op = "CompareRSA" ELSE key
    /\ ret.was.v >= max
    /\ AnyCompare(cache, ret.id, "a", BadEncryptedPassword, FALSE, TRUE).err
          = "ErrMaxPasswordAttempts"

ValidationErrors == {"ErrConfirmPasswordNotMatch", "ErrSamePassword", "ErrBlankPassword"}

\* The step deleted the record of id for a reason the ledger knows: Reset or
\* Clear, the end of its window, or a call on id whose password was accepted.
Forgotten(id) ==
    /\ id \notin DOMAIN cache'
    /\ ret'.id = id
    /\ \/ ret'.op \in {"Reset", "Expire"}
       \/ ret'.op \in CompareOps \cup ChangeOps /\ ret'.ok
       \/ ret'.op \in ChangeOps /\ ret'.err \in ValidationErrors \cup TransportErrors

\* C16: a call that returns ErrIncorrectPassword has added exactly 1 to the
\* count of its identity (an absent record counting as 0) with a fresh window,
\* has changed no other record, and carries the count now stored; and from one
\* step to the next the stored count of an identity never goes down unless the
\* record is deleted by a reset, an expiry or a success.
C16_IncrementByOne ==
    [][/\ ret'.err = "ErrIncorrectPassword" =>
             /\ cache' = Set(cache, ret'.id, Entry(cache, ret'.id).v + 1, dur)
             /\ ret'.n = Entry(cache', ret'.id).v
             /\ ret'.n = ret'.was.v + 1
       /\ \A id \in Ids :
             Entry(cache', id).v >= Entry(cache, id).v \/ Forgotten(id)]_vars

C16_Witness ==
    /\ impl = "passworder.go"
    /\ ret.err = "ErrIncorrectPassword"
    /\ ret.was.v = 1
    /\ ret.n = 2
    /\ Entry(cache, ret.id).v = 2

\* The count of id has reached the threshold.
AtThreshold(c, id) == id \in DOMAIN c /\ c[id].v >= max

\* C17, while the threshold stays as it is: once the count of an identity has
\* reached the threshold, every call that enters compare on it - compare or
\* change, with a key or without, whatever the passwords - returns Locked, never
\* Success, and leaves the ledger as it is, the time left to the record
\* included; the identity stops being locked only by a step that is Reset/Clear
\* on it or the passing of the last unit of its window, counted from the last
\* recorded failure, and after that step the correct password succeeds.
C17_LockedUntilResetOrExpiry ==
    /\ [](\A id \in Ids :
            AtThreshold(cache, id) =>
               /\ locked(cache, id)
               /\ \A reference \in References, password \in AllSupplied,
                     hashed \in BOOLEAN, priv \in BOOLEAN :
                     LET r == AnyCompare(cache, id, reference, password, hashed, priv)
                     IN r.err = "ErrMaxPasswordAttempts" /\ ~r.ok /\ r.c = cache
               /\ IsPackage =>
                     \A password \in AllSupplied, new1 \in {"b", Envelope("b")},
                        hashed \in BOOLEAN, priv \in BOOLEAN :
                        LET g == change(cache, id, "a", password, new1, new1, hashed, priv,
                                        "saltsaltsaltsaltsalt.1")
                        IN g.err = "ErrMaxPasswordAttempts" /\ g.cred = "" /\ g.c = cache)
    /\ [][\A id \in Ids :
            (AtThreshold(cache, id) /\ max' = max) =>
               /\ (ret'.op \in CompareOps /\ ret'.id = id) =>
                     /\ ret'.err \in {"ErrMaxPasswordAttempts", "ErrNoPrivateKey"}
                     /\ cache' = cache
               /\ ~AtThreshold(cache', id) =>
                     /\ \/ ret'.op = "Reset" /\ ret'.id = id
                        \/ ret'.op = "Tick" /\ cache[id].ttl = 1
                     /\ id \notin DOMAIN cache'
                     /\ AnyCompare(cache', id, "a", IF IsPassworder /\ key THEN Envelope("a")
                                                    ELSE "a", FALSE, FALSE).ok]_vars

\* A compare on a locked identity whose record had one unit of a window of two
\* left: it returned Locked and the record has that one unit still.
C17_Witness ==
    /\ ret.op \in CompareOps
    /\ ret.err = "ErrMaxPasswordAttempts"
    /\ ret.was.ttl = 1
    /\ dur = 2
    /\ Entry(cache, ret.id) = ret.was
    /\ AtThreshold(cache, ret.id)

\* The step wrote the record of id.
Written(id) ==
    /\ id \in DOMAIN cache'
    /\ id \notin DOMAIN cache \/ cache'[id].v # cache[id].v

\* C18: a step that writes the record of an identity gives it the whole window
\* from then on, whatever time the record had left and whatever its age, and
\* leaves every other record its count and its time; a failure on a record that
\* is still there adds to its count, also when the first failure it counts is
\* as old as the window or older, and a failure on an identity without a record
\* stores 1; a unit of time takes one unit from every record and forgets the
\* records that had one unit left. So a record older than the longest window
\* has been written more than once.
C18_FailureRestartsWindow ==
    /\ [](\A id \in DOMAIN cache :
            /\ cache[id].ttl >= 1
            /\ age[id] >= Longest => cache[id].v >= 2)
    /\ [][\A id \in Ids :
            /\ Written(id) =>
                  /\ cache'[id].ttl = dur
                  /\ ret'.id = id
                  /\ \A other \in Ids \ {id} : Entry(cache', other) = Entry(cache, other)
            /\ (ret'.err = "ErrIncorrectPassword" /\ ret'.id = id) =>
                  /\ Written(id)
                  /\ cache'[id].v = Entry(cache, id).v + 1
                  /\ age'[id] = age[id]
                  /\ id \notin DOMAIN cache => cache'[id].v = 1
            /\ ret'.op = "Tick" =>
                  /\ id \in DOMAIN cache' <=> Entry(cache, id).ttl > 1
                  /\ id \in DOMAIN cache' =>
                        cache'[id] = [v |-> cache[id].v, ttl |-> cache[id].ttl - 1]]_vars

\* Two failures less than a window apart: the record is there, and counts both,
\* when the window of the first is over.
C18_Witness ==
    \E id \in DOMAIN cache :
       /\ age[id] >= Longest
       /\ cache[id].v = 2
       /\ dur = Longest
       /\ locked(cache, id)
       /\ \A other \in Ids \ {id} : other \notin DOMAIN cache

\* C19: in every state IsMaxAttempts(id), of the package and of either
\* Passworder, holds exactly when id has a record whose count is at least the
\* threshold configured now, and an identity without a record is not locked;
\* SetMaxAttempts changes no record and the lockout follows the new threshold
\* at once: raised above the count of a locked identity it unlocks it, lowered
\* to the count of an identity that was not locked, or below, it locks it.
C19_ReadTimeComparison ==
    /\ [](\A id \in Ids :
            /\ IsMaxAttempts(cache, id) <=> AtThreshold(cache, id)
            /\ Passworder_IsMaxAttempts(cache, id) <=> AtThreshold(cache, id)
            /\ Legacy_IsMaxAttempts(cache, id) <=> AtThreshold(cache, id)
            /\ id \notin DOMAIN cache =>
                  AnyCompare(cache, id, "a", "a", FALSE, FALSE).err # "ErrMaxPasswordAttempts"
            /\ (AnyCompare(cache, id, "a", "b", FALSE, FALSE).err = "ErrMaxPasswordAttempts")
                  <=> AtThreshold(cache, id)
            /\ (ret.op = "IsMaxAttempts" /\ ret.id = id) =>
                  (ret.ok <=> AtThreshold(cache, id)))
    /\ [][ret'.op = "SetMaxAttempts" =>
            /\ cache' = cache
            /\ ret'.n = max
            /\ \A id \in DOMAIN cache :
                  /\ locked(cache, id)' <=> cache[id].v >= max'
                  /\ (locked(cache, id) /\ max' > cache[id].v) => ~locked(cache, id)'
                  /\ (~locked(cache, id) /\ max' <= cache[id].v) => locked(cache, id)']_vars

\* SetMaxAttempts has raised the threshold above the count of an identity that
\* was locked: it is locked no more.
C19_Witness ==
    /\ ret.op = "SetMaxAttempts"
    /\ \E id \in DOMAIN cache :
          /\ cache[id].v >= ret.n
          /\ cache[id].v < max
          /\ ~locked(cache, id)
          /\ AnyCompare(cache, id, "a", IF IsPassworder /\ key THEN Envelope("a") ELSE "a",
                        FALSE, FALSE).ok

\* C20: a change call whose old password is accepted and whose new password is
\* rejected - by ConfirmMismatch, SamePassword or BlankPassword, or because
\* new1 or new2 does not decrypt - returns no credential and records nothing:
\* the ledger after the call is the ledger before it without the record of the
\* identity, whatever count that record held.
C20_RulesLeaveLedger ==
    /\ IsPackage =>
          \A info \in Ids, hashedPassword \in ChangeReferences, password \in {"", "a"},
             new1 \in Passwords \cup {BadEncryptedPassword},
             new2 \in Passwords \cup {BadEncryptedPassword},
             hashed \in BOOLEAN, priv \in BOOLEAN :
             LET old == IF priv THEN Envelope(password) ELSE password
                 sent1 == IF priv /\ new1 \in Passwords THEN Envelope(new1) ELSE new1
                 sent2 == IF priv /\ new2 \in Passwords THEN Envelope(new2) ELSE new2
                 r == compare(cache, info, hashedPassword, old, hashed, priv)
                 g == change(cache, info, hashedPassword, old, sent1, sent2, hashed, priv,
                             "saltsaltsaltsaltsalt.1")
             IN (r.ok /\ g.err # "nil") =>
                   /\ g.err \in ValidationErrors \cup TransportErrors
                   /\ g.err \in TransportErrors <=>
                         (priv /\ BadEncryptedPassword \in {new1, new2})
                   /\ g.cred = ""
                   /\ g.c = Delete(cache, info)
                   /\ r.c = Delete(cache, info)
    /\ (ret.op \in ChangeOps /\ ret.err \in ValidationErrors) =>
          ret.cred = "" /\ ret.id \notin DOMAIN cache /\ ret.was.v < max

C20_Witness ==
    /\ ret.op \in ChangeOps
    /\ ret.err \in ValidationErrors
    /\ ret.was.v >= 1
    /\ ret.id \notin DOMAIN cache

\* The operations on one identity.
OnIdentity == CompareOps \cup ChangeOps \cup {"Reset", "IsMaxAttempts", "Expire"}

\* C21: an operation on identity a - a compare with any outcome, a failed
\* decryption included, a change, Reset or Clear - leaves the record of every
\* other identity b as it was, count and window, also when a and b are
\* composite keys that differ in one field only; b is locked after the
\* operation exactly if it was locked before.
C21_IdentitiesIsolated ==
    /\ [](\A a \in Ids :
            \A b \in Ids \ {a} :
               /\ \A reference \in References, password \in AllSupplied,
                     hashed \in BOOLEAN, priv \in BOOLEAN :
                     LET r == AnyCompare(cache, a, reference, password, hashed, priv)
                     IN /\ Entry(r.c, b) = Entry(cache, b)
                        /\ locked(r.c, b) <=> locked(cache, b)
               /\ IsPackage =>
                     \A password \in {"a", "b", Envelope("a")},
                        new1 \in {"a", "b", Envelope("b"), BadEncryptedPassword},
                        hashed \in BOOLEAN, priv \in BOOLEAN :
                        LET g == change(cache, a, "a", password, new1, new1, hashed, priv,
                                        "saltsaltsaltsaltsalt.1")
                        IN Entry(g.c, b) = Entry(cache, b)
               /\ Entry(Reset(cache, a), b) = Entry(cache, b)
               /\ Entry(Clear(cache, a), b) = Entry(cache, b))
    /\ [][ret'.op \in OnIdentity =>
            \A b \in Ids \ {ret'.id} :
               /\ Entry(cache', b) = Entry(cache, b)
               /\ locked(cache, b)' <=> locked(cache, b)]_vars

\* The last failure has locked its identity; the identity that differs from it
\* in one field has a record of its own and is not locked.
C21_Witness ==
    /\ ret.err = "ErrIncorrectPassword"
    /\ locked(cache, ret.id)
    /\ Entry(cache, ret.id).v = MaxThreshold
    /\ \E b \in DOMAIN cache \ {ret.id} :
          /\ b[1] = ret.id[1]
          /\ cache[b].v = 1
          /\ ~locked(cache, b)

\* C22: with the threshold fixed and the calls one at a time, every record
\* that is present holds a count of at least 1; the count is at most the
\* threshold on the package and on a Passworder without a key, and below twice
\* the threshold on a Passworder with a key.
C22_BoundedCount ==
    \A id \in DOMAIN cache :
       /\ cache[id].v >= 1
       /\ (IsPackage \/ ~key) => cache[id].v <= max
       /\ (IsPassworder /\ key) => cache[id].v < 2 * max

\* A Passworder with a key holds a record one short of twice the threshold:
\* failures up to one below the threshold, then a password that did not decrypt.
C22_Witness ==
    /\ impl = "passworder.go"
    /\ key
    /\ max = MaxThreshold
    /\ ret.err \in TransportErrors
    /\ Entry(cache, ret.id).v = 2 * max - 1

=============================================================================
